---------------------------- MODULE Spec2Model ----------------------------
(***************************************************************************)
(* A model of src/main.py: the HedgingBot command handlers and the         *)
(* run_risk_monitoring thread.                                             *)
(*                                                                         *)
(* Numbers are scaled integers:                                            *)
(*   delta, risk_threshold, hedge_threshold   in 1/100                     *)
(*   position_size                            in 1/10                      *)
(*   hedge sizes (position_size * |delta|)    in 1/1000                    *)
(*   var (delta * position_size * 0.5)        in 1/2000                    *)
(*   time                                     in whole seconds             *)
(* An optional value (a dict key that may be absent, None) is a sequence   *)
(* of length 0 or 1.                                                       *)
(*                                                                         *)
(* The dispatcher runs the command handlers one at a time; the monitoring  *)
(* thread interleaves with them.  A handler that writes shared state twice *)
(* with other work in between is split at that point (pending).            *)
(***************************************************************************)
EXTENDS Integers, Sequences, FiniteSets, TLC

VARIABLES
    active_monitors,  \* self.active_monitors: chat_id -> Monitor, in insertion order
    heap,             \* the Monitor dicts, by identity
    positions,        \* self.positions: asset -> position_size
    risk_metrics,     \* self.risk_metrics: asset -> latest snapshot
    history,          \* the calls of save_hedge_history, in order
    now,              \* datetime.now(), in seconds
    pc,               \* where run_risk_monitoring is
    queue,            \* the rest of list(self.active_monitors.items())
    loc,              \* the loop body's locals for the Monitor in hand
    pending,          \* the second half of the handler the dispatcher is in
    reply,            \* the last message a handler sent: which text, and the hedge
                      \* size or the asset it names where the state does not hold them
    observed          \* which of "reply", "log" (history) and "alerts" (a Monitor's
                      \* alerts, sent, reeval and auto_hedged) a specification records; the
                      \* program reads none of the three

vars == <<active_monitors, heap, positions, risk_metrics, history, now, pc,
          queue, loc, pending, reply, observed>>

(***************************************************************************)
(* Bounds                                                                  *)
(***************************************************************************)
MaxMonitors == 3          \* Monitor dicts alive at once
MaxHistory == 2           \* save_hedge_history calls in a run
MaxDays == 1              \* the long clock runs over days 0..MaxDays

(***************************************************************************)
(* Program constants                                                       *)
(***************************************************************************)
ALERT_COOLDOWN == 300
SecondsPerDay == 86400
VAR_THRESHOLD == 100               \* RISK_THRESHOLDS['var'] = 0.05, in 1/2000
VAR_FLOOR == 20                    \* 0.01 in 1/2000
VAR_CAP == 400                     \* 0.2 in 1/2000
DEFAULT_HEDGE_THRESHOLD == 100     \* monitor.get('hedge_threshold', 1.0)
LOOP_SLEEP == 10
BACKOFF_SLEEP == 30
\* The strategy list with a name the program does not know.
strategies_with_unknown ==
    {"delta_neutral", "protective_puts", "covered_calls", "dynamic", "bogus"}

valid_strategies == {"delta_neutral", "protective_puts", "covered_calls", "dynamic"}

None == <<>>
Some(x) == <<x>>
Abs(x) == IF x < 0 THEN -x ELSE x
Min(a, b) == IF a < b THEN a ELSE b
Max(a, b) == IF a > b THEN a ELSE b

MonitorIds == 1..MaxMonitors

(***************************************************************************)
(* str.upper() and str.lower() on the argument texts                       *)
(***************************************************************************)
Upper(s) == CASE s = "btc" -> "BTC" [] s = "eth" -> "ETH" [] OTHER -> s
Lower(s) == CASE s = "Delta_Neutral" -> "delta_neutral" [] OTHER -> s
Assets == {"BTC", "ETH"}

(***************************************************************************)
(* The registry dict, kept in insertion order                              *)
(***************************************************************************)
Has(am, chat) == \E i \in 1..Len(am) : am[i].chat = chat
Get(am, chat) == (CHOOSE e \in {am[i] : i \in 1..Len(am)} : e.chat = chat).mon
\* A registry built anew around the one chat.
PutAlone(am, chat, id) == <<[chat |-> chat, mon |-> id]>>

\* A registry that keeps the dict a chat already has.
PutKeepingOld(am, chat, id) ==
    IF Has(am, chat) THEN am ELSE Append(am, [chat |-> chat, mon |-> id])

Put(am, chat, id) ==
    IF Has(am, chat)
    THEN [i \in 1..Len(am) |-> IF am[i].chat = chat THEN [chat |-> chat, mon |-> id] ELSE am[i]]
    ELSE Append(am, [chat |-> chat, mon |-> id])
\* A stop that empties the registry.
DelAll(am, chat) == <<>>

Del(am, chat) == SelectSeq(am, LAMBDA e : e.chat # chat)

(***************************************************************************)
(* hedge_status: 'not_hedged' or f'hedged_{size}'                          *)
(***************************************************************************)
NotHedged == [hedged |-> FALSE, size |-> 0]
\* A hedge of size 0 taken for no hedge.
HedgedUnlessZero(size) ==
    IF size = 0 THEN NotHedged ELSE [hedged |-> TRUE, size |-> size]

Hedged(size) == [hedged |-> TRUE, size |-> size]

(***************************************************************************)
(* A Monitor dict as monitor_risk builds it.  alerts, sent, reeval and     *)
(* auto_hedged are history variables: how many alerts were delivered for   *)
(* this dict (0, 1, or 2 for two and more), when the last of them was,     *)
(* whether the loop has evaluated the dict again since, and when the loop  *)
(* executed its last two automatic hedges for the dict.                    *)
(***************************************************************************)
NewMonitor(asset, position_size, risk_threshold) ==
    [asset |-> asset,
     position_size |-> position_size,
     risk_threshold |-> risk_threshold,
     last_alert |-> None,
     hedge_status |-> NotHedged,
     hedge_strategy |-> None,
     hedge_threshold |-> None,
     alerts |-> 0,
     sent |-> None,
     reeval |-> FALSE,
     auto_hedged |-> <<>>]

\* A dict nothing refers to any more is gone.
Refs(am, q, l) ==
    {am[i].mon : i \in 1..Len(am)} \cup {q[i].mon : i \in 1..Len(q)}
        \cup {l[i].mon : i \in 1..Len(l)}
Reclaim(h, am, q, l) == [id \in MonitorIds |-> IF id \in Refs(am, q, l) THEN h[id] ELSE None]
FreeIds(h) == {id \in MonitorIds : h[id] = None}
NewId(h) == CHOOSE id \in FreeIds(h) : \A other \in FreeIds(h) : id <= other

InitObserving(obs) ==
    /\ observed = obs
    /\ active_monitors = <<>>
    /\ heap = [id \in MonitorIds |-> None]
    /\ positions = [a \in Assets |-> None]
    /\ risk_metrics = [a \in Assets |-> None]
    /\ history = <<>>
    /\ now = 0
    /\ pc = "snapshot"
    /\ queue = <<>>
    /\ loc = None
    /\ pending = None
    /\ reply = [text |-> "none", val |-> 0, asset |-> ""]

Say(text, val, asset) ==
    IF "reply" \in observed
    THEN reply' = [text |-> text, val |-> val, asset |-> asset]
    ELSE UNCHANGED reply

\* The log has room for one more record (a bound of the model, when it is recorded).
\* The loop leaves the room a manual hedge under way will need.
LogHasRoom == "log" \in observed => Len(history) < MaxHistory
LogHasRoomForLoop == "log" \in observed => Len(history) + Len(pending) < MaxHistory

(***************************************************************************)
(* /monitor_risk                                                           *)
(***************************************************************************)
monitor_risk(chat, nargs, asset_arg, size_arg, threshold_arg) ==
    /\ pending = None
    /\ IF nargs # 3
       THEN /\ Say("usage", 0, "")
            /\ UNCHANGED <<active_monitors, heap, pending>>
       ELSE IF size_arg = None \/ threshold_arg = None
       THEN /\ Say("error", 0, "")                    \* float() raised
            /\ UNCHANGED <<active_monitors, heap, pending>>
       ELSE /\ FreeIds(heap) # {}
            /\ LET id == NewId(heap)
                   am == Put(active_monitors, chat, id)
                   h == [heap EXCEPT ![id] = Some(NewMonitor(Upper(asset_arg), size_arg[1],
                                                               threshold_arg[1]))]
               IN  /\ active_monitors' = am
                   /\ heap' = Reclaim(h, am, queue, loc)
            /\ pending' = Some([op |-> "monitor_risk", chat |-> chat,
                                asset |-> Upper(asset_arg), size |-> size_arg[1]])
            /\ UNCHANGED reply
    /\ UNCHANGED <<positions, risk_metrics, history, now, pc, queue, loc, observed>>

monitor_risk_positions ==
    /\ pending # None
    /\ pending[1].op = "monitor_risk"
    /\ positions' = [positions EXCEPT ![pending[1].asset] = Some(pending[1].size)]
    /\ Say("started", 0, "")
    /\ pending' = None
    /\ UNCHANGED <<active_monitors, heap, risk_metrics, history, now, pc, queue, loc, observed>>


(***************************************************************************)
(* Market data and the hedge calculation                                   *)
(***************************************************************************)
\* prices.get(asset, 0), for a draw n of the noise, in units of the noise's width
get_market_price(asset, n) ==
    CASE asset = "BTC" -> 62000 + 500 * n
      [] asset = "ETH" -> 3400 + 50 * n
      [] asset = "SOL" -> 120 + 2 * n
      [] OTHER -> 0

\* var = min(0.2, max(0.01, delta * position_size * 0.5)), in 1/2000
ValueAtRisk(delta, position_size) == Min(VAR_CAP, Max(VAR_FLOOR, delta * position_size))

\* The snapshot calculate_risk_metrics returns for a drawn delta.  gamma, theta,
\* vega, price, volatility and liquidity are drawn and only ever formatted into
\* the alert.
calculate_risk_metrics(asset, position_size, delta) ==
    [delta |-> delta, var |-> ValueAtRisk(delta, position_size)]

\* The hedge size with the sign of delta kept.
calculate_optimal_hedge_signed(asset) ==
    LET delta == IF risk_metrics[asset] = None THEN 0 ELSE risk_metrics[asset][1].delta
        position_size == IF positions[asset] = None THEN 0 ELSE positions[asset][1]
    IN  position_size * delta

calculate_optimal_hedge(asset) ==
    LET delta == IF risk_metrics[asset] = None THEN 0 ELSE risk_metrics[asset][1].delta
        position_size == IF positions[asset] = None THEN 0 ELSE positions[asset][1]
    IN  IF delta = 0 \/ position_size = 0 THEN 0 ELSE position_size * Abs(delta)

\* A history that keeps the latest record only.
save_hedge_history_latest(asset, size, price) ==
    IF "log" \in observed
    THEN history' = <<[asset |-> asset, size |-> size, price |-> price,
                       timestamp |-> now, status |-> "filled"]>>
    ELSE UNCHANGED history

\* save_hedge_history(asset, details): the record goes to the log.
save_hedge_history(asset, size, price) ==
    IF "log" \in observed
    THEN history' = Append(history, [asset |-> asset, size |-> size, price |-> price,
                                     timestamp |-> now, status |-> "filled"])
    ELSE UNCHANGED history

(***************************************************************************)
(* /auto_hedge                                                             *)
(***************************************************************************)
auto_hedge(chat, nargs, strategy_arg, threshold_arg) ==
    /\ pending = None
    /\ IF nargs < 2
       THEN /\ Say("usage", 0, "")
            /\ UNCHANGED heap
       ELSE IF threshold_arg = None
       THEN /\ Say("error", 0, "")                    \* float() raised
            /\ UNCHANGED heap
       ELSE IF Lower(strategy_arg) \notin valid_strategies
       THEN /\ Say("invalid_strategy", 0, "")
            /\ UNCHANGED heap
       ELSE IF ~Has(active_monitors, chat)
       THEN /\ Say("not_monitoring", 0, "")
            /\ UNCHANGED heap
       ELSE /\ LET id == Get(active_monitors, chat)
               IN  heap' = [heap EXCEPT ![id] =
                               Some([heap[id][1] EXCEPT
                                       !.hedge_strategy = Some(Lower(strategy_arg)),
                                       !.hedge_threshold = Some(threshold_arg[1])])]
            /\ Say("configured", 0, "")
    /\ UNCHANGED <<active_monitors, positions, risk_metrics, history, now, pc, queue,
                   loc, pending, observed>>

(***************************************************************************)
(* /hedge_now                                                              *)
(***************************************************************************)
\* A manual hedge that leaves out the status write for a chat without a
\* Monitor and goes on to the reply and the record.
hedge_now_without_monitor(chat, nargs, asset_arg, size_arg) ==
    /\ pending = None
    /\ IF nargs # 2
       THEN /\ Say("usage", 0, "")
            /\ UNCHANGED <<heap, pending>>
       ELSE IF size_arg = None
       THEN /\ Say("error", 0, "")
            /\ UNCHANGED <<heap, pending>>
       ELSE /\ LogHasRoom
            /\ IF Has(active_monitors, chat)
               THEN LET id == Get(active_monitors, chat)
                    IN  heap' = [heap EXCEPT ![id] =
                                    Some([heap[id][1] EXCEPT
                                            !.hedge_status = Hedged(size_arg[1])])]
               ELSE UNCHANGED heap
            /\ Say("hedged", 0, "")
            /\ pending' = Some([op |-> "hedge_now", chat |-> chat,
                                asset |-> Upper(asset_arg), size |-> size_arg[1]])
    /\ UNCHANGED <<active_monitors, positions, risk_metrics, history, now, pc, queue, loc,
                   observed>>

hedge_now(chat, nargs, asset_arg, size_arg) ==
    /\ pending = None
    /\ IF nargs # 2
       THEN /\ Say("usage", 0, "")
            /\ UNCHANGED <<heap, pending>>
       ELSE IF size_arg = None
       THEN /\ Say("error", 0, "")                    \* float() raised
            /\ UNCHANGED <<heap, pending>>
       ELSE IF ~Has(active_monitors, chat)
       THEN /\ Say("error", 0, "")                    \* KeyError
            /\ UNCHANGED <<heap, pending>>
       ELSE /\ LogHasRoom
            /\ LET id == Get(active_monitors, chat)
               IN  heap' = [heap EXCEPT ![id] =
                               Some([heap[id][1] EXCEPT !.hedge_status = Hedged(size_arg[1])])]
            /\ Say("hedged", 0, "")
            /\ pending' = Some([op |-> "hedge_now", chat |-> chat,
                                asset |-> Upper(asset_arg), size |-> size_arg[1]])
    /\ UNCHANGED <<active_monitors, positions, risk_metrics, history, now, pc, queue, loc,
                   observed>>

\* The record of a manual hedge priced from the asset's snapshot: without one
\* the lookup raises and the handler ends in its except branch.
hedge_now_record_from_snapshot(noise) ==
    /\ pending # None
    /\ pending[1].op = "hedge_now"
    /\ LogHasRoom
    /\ IF risk_metrics[pending[1].asset] = None
       THEN UNCHANGED history
       ELSE \E n \in noise :
               save_hedge_history(pending[1].asset, pending[1].size,
                                  get_market_price(pending[1].asset, n))
    /\ pending' = None
    /\ UNCHANGED <<active_monitors, heap, positions, risk_metrics, now, pc, queue, loc,
                   reply, observed>>

\* Lines 195-202, after reply_text has returned.
hedge_now_record(noise) ==
    /\ pending # None
    /\ pending[1].op = "hedge_now"
    /\ LogHasRoom
    /\ \E n \in noise :
           save_hedge_history(pending[1].asset, pending[1].size,
                              get_market_price(pending[1].asset, n))
    /\ pending' = None
    /\ UNCHANGED <<active_monitors, heap, positions, risk_metrics, now, pc, queue, loc,
                   reply, observed>>

(***************************************************************************)
(* /hedge_status                                                           *)
(***************************************************************************)
hedge_status(chat) ==
    /\ pending = None
    /\ IF ~Has(active_monitors, chat)
       THEN Say("no_active_monitoring", 0, "")
       ELSE Say("status", 0, heap[Get(active_monitors, chat)][1].asset)
    /\ UNCHANGED <<active_monitors, heap, positions, risk_metrics, history, now, pc, queue,
                   loc, pending, observed>>

(***************************************************************************)
(* /stop_monitoring                                                        *)
(***************************************************************************)
stop_monitoring(chat) ==
    /\ pending = None
    /\ IF Has(active_monitors, chat)
       THEN LET id == Get(active_monitors, chat)
                am == Del(active_monitors, chat)
            IN  /\ Say("stopped", 0, heap[id][1].asset)
                /\ active_monitors' = am
                /\ heap' = Reclaim(heap, am, queue, loc)
       ELSE /\ Say("no_monitoring", 0, "")
            /\ UNCHANGED <<active_monitors, heap>>
    /\ UNCHANGED <<positions, risk_metrics, history, now, pc, queue, loc, pending, observed>>

(***************************************************************************)
(* The inline buttons                                                      *)
(***************************************************************************)
\* float(query.data.split('_')[1]), in 1/100
ThresholdOfData(data) ==
    CASE data = "threshold_0.05" -> 5
      [] data = "threshold_0.10" -> 10
      [] data = "threshold_0.15" -> 15

button_handler(chat, data) ==
    /\ pending = None
    /\ IF ~Has(active_monitors, chat)
       THEN /\ Say("session_expired", 0, "")
            /\ UNCHANGED <<heap, pending>>
       ELSE LET id == Get(active_monitors, chat)
                asset == heap[id][1].asset
            IN  CASE data = "hedge_now" ->
                       /\ Say("hedge_prompt", calculate_optimal_hedge(asset), "")
                       /\ UNCHANGED <<heap, pending>>
                  [] data = "confirm_hedge" ->
                       /\ LogHasRoom
                       /\ heap' = [heap EXCEPT ![id] =
                              Some([heap[id][1] EXCEPT
                                      !.hedge_status = Hedged(calculate_optimal_hedge(asset))])]
                       /\ pending' = Some([op |-> "confirm_hedge", chat |-> chat,
                                           asset |-> asset,
                                           size |-> calculate_optimal_hedge(asset)])
                       /\ UNCHANGED reply
                  [] data = "adjust_threshold" ->
                       /\ Say("threshold_menu", 0, "")
                       /\ UNCHANGED <<heap, pending>>
                  [] data = "threshold_custom" ->
                       /\ Say("threshold_custom", 0, "")
                       /\ UNCHANGED <<heap, pending>>
                  [] data \in {"threshold_0.05", "threshold_0.10", "threshold_0.15"} ->
                       /\ heap' = [heap EXCEPT ![id] =
                              Some([heap[id][1] EXCEPT
                                      !.risk_threshold = ThresholdOfData(data)])]
                       /\ Say("threshold_updated", 0, "")
                       /\ UNCHANGED pending
                  [] OTHER ->
                       UNCHANGED <<heap, pending, reply>>
    /\ UNCHANGED <<active_monitors, positions, risk_metrics, history, now, pc, queue, loc,
                   observed>>

confirm_hedge_record(noise) ==
    /\ pending # None
    /\ pending[1].op = "confirm_hedge"
    /\ LogHasRoom
    /\ \E n \in noise :
           /\ save_hedge_history(pending[1].asset, pending[1].size,
                                 get_market_price(pending[1].asset, n))
           /\ Say("hedged", 0, "")
    /\ pending' = None
    /\ UNCHANGED <<active_monitors, heap, positions, risk_metrics, now, pc, queue, loc, observed>>

(***************************************************************************)
(* run_risk_monitoring                                                     *)
(***************************************************************************)
\* timedelta.seconds: the seconds field of the difference, the days left out
TimedeltaSeconds(d) == d % SecondsPerDay

\* The cooldown test with >= for >.
CooldownOverInclusive(t, last_alert) == TimedeltaSeconds(t - last_alert) >= ALERT_COOLDOWN

\* (datetime.now() - monitor['last_alert']).seconds > 300
CooldownOver(t, last_alert) == TimedeltaSeconds(t - last_alert) > ALERT_COOLDOWN

\* The alert test with >= for >.
should_alert_inclusive(delta_exposure, risk_threshold, var) ==
    delta_exposure >= risk_threshold \/ var >= VAR_THRESHOLD

should_alert(delta_exposure, risk_threshold, var) ==
    delta_exposure > risk_threshold \/ var > VAR_THRESHOLD

\* The automatic hedge of every Monitor that has a strategy.
ShouldHedgeAnyDelta(m, delta_exposure) == m.hedge_strategy # None

\* monitor.get('hedge_strategy') and delta_exposure > monitor.get('hedge_threshold', 1.0)
ShouldHedge(m, delta_exposure) ==
    /\ m.hedge_strategy # None
    /\ delta_exposure > (IF m.hedge_threshold = None THEN DEFAULT_HEDGE_THRESHOLD
                         ELSE m.hedge_threshold[1])

\* Where the for loop goes after a Monitor: the next one, or time.sleep(10).
NextPc(q) == IF q = <<>> THEN "sleep" ELSE "eval"

\* for chat_id, monitor in list(self.active_monitors.items())
LoopSnapshot ==
    /\ pc = "snapshot"
    /\ queue' = active_monitors
    /\ pc' = NextPc(active_monitors)
    /\ UNCHANGED <<active_monitors, heap, positions, risk_metrics, history, now, loc,
                   pending, reply, observed>>

\* Lines 311-324: read the Monitor, compute and store the snapshot, decide should_alert.
LoopEval(deltas) ==
    /\ pc = "eval"
    /\ queue # <<>>
    /\ LET item == Head(queue)
           m == heap[item.mon][1]
       IN  \E delta \in deltas :
             LET metrics == calculate_risk_metrics(m.asset, m.position_size, delta)
             IN  /\ risk_metrics' = [risk_metrics EXCEPT ![m.asset] = Some(metrics)]
                 /\ loc' = Some([chat |-> item.chat, mon |-> item.mon, asset |-> m.asset,
                                 position_size |-> m.position_size,
                                 risk_threshold |-> m.risk_threshold,
                                 delta |-> metrics.delta,
                                 var |-> metrics.var,
                                 should_alert |-> should_alert(Abs(metrics.delta),
                                                               m.risk_threshold, metrics.var)])
    /\ queue' = Tail(queue)
    /\ pc' = "check"
    /\ UNCHANGED <<active_monitors, heap, positions, history, now, pending, reply, observed>>

\* calculate_risk_metrics when a market-data call raises: its except branch
\* returns {}, which the loop stores and then indexes with 'delta' (line 319);
\* the KeyError ends the tick in the loop's except branch.  Every later reader
\* of the stored {} uses .get(key, 0), so it is held as a snapshot of zeros.
EmptySnapshot == [delta |-> 0, var |-> 0]

LoopEvalUnavailable ==
    /\ pc = "eval"
    /\ queue # <<>>
    /\ LET m == heap[Head(queue).mon][1]
       IN  risk_metrics' = [risk_metrics EXCEPT ![m.asset] = Some(EmptySnapshot)]
    /\ pc' = "backoff"
    /\ queue' = <<>>
    /\ loc' = None
    /\ heap' = Reclaim(heap, active_monitors, <<>>, None)
    /\ UNCHANGED <<active_monitors, positions, history, now, pending, reply, observed>>

\* Lines 326-329: the cooldown test.
LoopCheck ==
    /\ pc = "check"
    /\ LET id == loc[1].mon
           m == heap[id][1]
           fire == loc[1].should_alert
                     /\ (m.last_alert = None \/ CooldownOver(now, m.last_alert[1]))
           h == [heap EXCEPT ![id] =
                    Some([m EXCEPT !.reeval = ("alerts" \in observed /\ m.last_alert # None)])]
       IN  IF fire
           THEN /\ pc' = "alert"
                /\ heap' = h
                /\ UNCHANGED loc
           ELSE /\ pc' = NextPc(queue)
                /\ loc' = None
                /\ heap' = Reclaim(h, active_monitors, queue, None)
    /\ UNCHANGED <<active_monitors, positions, risk_metrics, history, now, queue, pending,
                   reply, observed>>

\* Lines 330-331: send_risk_alert, then last_alert.  bot.send_message may raise,
\* which ends the tick in the except branch.
LoopAlert ==
    /\ pc = "alert"
    /\ LET id == loc[1].mon
           m == heap[id][1]
       IN  \/ /\ heap' = [heap EXCEPT ![id] =
                     Some([m EXCEPT !.last_alert = Some(now),
                                    !.alerts = IF "alerts" \in observed
                                               THEN Min(2, m.alerts + 1) ELSE 0,
                                    !.sent = IF "alerts" \in observed
                                             THEN Some(now) ELSE None,
                                    !.reeval = FALSE])]
              /\ pc' = "hedge"
              /\ UNCHANGED <<queue, loc>>
           \/ /\ pc' = "backoff"
              /\ queue' = <<>>
              /\ loc' = None
              /\ heap' = Reclaim(heap, active_monitors, <<>>, None)
    /\ UNCHANGED <<active_monitors, positions, risk_metrics, history, now, pending, reply,
                   observed>>

\* Lines 334-337: the automatic hedge.
LoopHedge(noise) ==
    /\ pc = "hedge"
    /\ LET id == loc[1].mon
           m == heap[id][1]
           hedge_size == calculate_optimal_hedge(loc[1].asset)
       IN  IF ShouldHedge(m, Abs(loc[1].delta))
           THEN /\ LogHasRoomForLoop
                /\ \E n \in noise :
                       save_hedge_history(loc[1].asset, hedge_size,
                                          get_market_price(loc[1].asset, n))
                /\ LET a == Append(m.auto_hedged, now)
                   IN  heap' = Reclaim([heap EXCEPT ![id] =
                                 Some([m EXCEPT !.hedge_status = Hedged(hedge_size),
                                                !.auto_hedged =
                                                    IF "alerts" \notin observed THEN <<>>
                                                    ELSE IF Len(a) > 2 THEN Tail(a) ELSE a])],
                                 active_monitors, queue, None)
           ELSE /\ heap' = Reclaim(heap, active_monitors, queue, None)
                /\ UNCHANGED history
    /\ pc' = NextPc(queue)
    /\ loc' = None
    /\ UNCHANGED <<active_monitors, positions, risk_metrics, now, queue, pending, reply, observed>>

\* time.sleep(10), and time.sleep(30) after an exception
Wake(times, seconds) ==
    /\ \E t \in times : t >= now + seconds /\ now' = t
    /\ pc' = "snapshot"
    /\ UNCHANGED <<active_monitors, heap, positions, risk_metrics, history, queue, loc,
                   pending, reply, observed>>

LoopSleep(times) == pc = "sleep" /\ Wake(times, LOOP_SLEEP)

\* An except branch that ends the thread.
LoopBackoffEnds(times) ==
    /\ pc = "backoff"
    /\ pc' = "done"
    /\ UNCHANGED <<active_monitors, heap, positions, risk_metrics, history, now, queue, loc,
                   pending, reply, observed>>

LoopBackoff(times) == pc = "backoff" /\ Wake(times, BACKOFF_SLEEP)

\* The sleeps once the clock shows the last instant of the model: the thread
\* wakes, and the reading stays.
WakeAtHorizon(times, seconds) ==
    /\ ~ \E t \in times : t >= now + seconds
    /\ pc' = "snapshot"
    /\ UNCHANGED <<active_monitors, heap, positions, risk_metrics, history, now, queue, loc,
                   pending, reply, observed>>

LoopSleepAtHorizon(times) == pc = "sleep" /\ WakeAtHorizon(times, LOOP_SLEEP)

LoopBackoffAtHorizon(times) == pc = "backoff" /\ WakeAtHorizon(times, BACKOFF_SLEEP)

(***************************************************************************)
(* The end of the service.  updater.idle() returns on a signal, main        *)
(* returns, and the interpreter exits without waiting for the monitoring   *)
(* thread, which is a daemon: the thread ends wherever it is.              *)
(***************************************************************************)
Shutdown ==
    /\ pc # "killed"
    /\ pc' = "killed"
    /\ UNCHANGED <<active_monitors, heap, positions, risk_metrics, history, now, queue, loc,
                   pending, reply, observed>>

(***************************************************************************)
(* The specifications.  A universe names the chats, the argument texts,    *)
(* the draws of the random quantities and the instants the clock shows.    *)
(***************************************************************************)
ButtonData == {"hedge_now", "confirm_hedge", "adjust_threshold", "threshold_0.05",
               "threshold_0.10", "threshold_0.15", "threshold_custom", "cancel"}

Registration(U) ==
    \/ \E chat \in U.chats, nargs \in {2, 3}, a \in U.asset_args, t \in U.threshold_args :
          \E p \in U.position_args[chat] : monitor_risk(chat, nargs, a, p, t)
    \/ monitor_risk_positions
    \/ \E chat \in U.chats, nargs \in {1, 2}, s \in U.strategy_args,
          t \in U.hedge_threshold_args : auto_hedge(chat, nargs, s, t)
    \/ \E chat \in U.chats : stop_monitoring(chat)

Hedging(U) ==
    \/ \E chat \in U.chats, nargs \in {1, 2}, a \in U.hedge_asset_args,
          z \in U.hedge_size_args : hedge_now(chat, nargs, a, z)
    \/ hedge_now_record(U.noise)
    \/ \E chat \in U.chats, data \in U.buttons : button_handler(chat, data)
    \/ confirm_hedge_record(U.noise)

Commands(U) == Registration(U) \/ Hedging(U)

Loop(U) ==
    \/ LoopSnapshot
    \/ LoopEval(U.deltas)
    \/ LoopCheck
    \/ LoopAlert
    \/ LoopHedge(U.noise)
    \/ LoopSleep(U.times)
    \/ LoopBackoff(U.times)

\* One subscriber, one asset, one text for each argument, one draw of delta (with
\* it the Monitor alerts and, once configured, hedges), a clock of two instants.
Base ==
    [chats |-> {1},
     asset_args |-> {"btc"},
     position_args |-> <<{<<15>>}, {<<30>>}>>,      \* by chat
     threshold_args |-> {<<10>>},
     strategy_args |-> {"Delta_Neutral", "bogus"},
     hedge_threshold_args |-> {<<5>>},
     hedge_asset_args |-> {"btc"},
     hedge_size_args |-> {<<500>>},
     buttons |-> {"hedge_now", "confirm_hedge"},
     deltas |-> {-12},                              \* draws of uniform(-0.2, 0.2)
     noise |-> {0},
     times |-> {0, 301}]

Next == Commands(Base) \/ Loop(Base)

Spec == InitObserving({"reply", "log"}) /\ [][Next]_vars

\* The clock over days 0..MaxDays, and a draw of delta that does not alert.
LongClock ==
    [Base EXCEPT !.deltas = {-12, 0},
                 !.times = {d * SecondsPerDay + o : d \in 0..MaxDays, o \in {0, 300, 301}}]

NextClock == Commands(LongClock) \/ Loop(LongClock)

SpecClock == InitObserving({"alerts"}) /\ [][NextClock]_vars

\* Hedge thresholds below and at the delta drawn, a draw that does not alert,
\* and ticks within and past the cooldown.
AutoHedging ==
    [Base EXCEPT !.hedge_threshold_args = {<<5>>, <<12>>},
                 !.deltas = {-12, 0},
                 !.times = {0, 300, 301, 602}]

NextAutoHedging == Registration(AutoHedging) \/ Loop(AutoHedging)

SpecAutoHedging == InitObserving({"alerts", "log"}) /\ [][NextAutoHedging]_vars

\* Thresholds in and out of [0, 1], and draws of delta below, at and above them.
Thresholds ==
    [Base EXCEPT !.threshold_args = {<<10>>, <<150>>, <<>>},    \* <<>>: text float() rejects
                 !.buttons = {"confirm_hedge", "threshold_0.15"},
                 !.deltas = {-10, 0, 12}]

NextThresholds == Commands(Thresholds) \/ Loop(Thresholds)

SpecThresholds == InitObserving({}) /\ [][NextThresholds]_vars

\* Position sizes and deltas that are zero, under the hedge recommendation.
Recommend ==
    [Base EXCEPT !.position_args = <<{<<0>>, <<15>>}>>,
                 !.buttons = {"hedge_now", "confirm_hedge", "cancel"},
                 !.deltas = {-12, 0}]

NextRecommend == Commands(Recommend) \/ Loop(Recommend)

SpecRecommend == InitObserving({"reply"}) /\ [][NextRecommend]_vars

\* Manual hedges of an asset other than the monitored one.
Manual ==
    [Base EXCEPT !.hedge_asset_args = {"btc", "ETH"},
                 !.hedge_size_args = {<<500>>, <<>>}]

NextManual == Commands(Manual) \/ Loop(Manual)

SpecManual == InitObserving({"log"}) /\ [][NextManual]_vars

\* Manual hedges by command from a chat with and without a Monitor, with the
\* replies.
Unregistered ==
    [Base EXCEPT !.hedge_asset_args = {"btc", "ETH"},
                 !.strategy_args = {"Delta_Neutral"}]

ManualHedge(U) ==
    \/ \E chat \in U.chats, nargs \in {1, 2}, a \in U.hedge_asset_args,
          z \in U.hedge_size_args : hedge_now(chat, nargs, a, z)
    \/ hedge_now_record(U.noise)

NextUnregistered ==
    Registration(Unregistered) \/ ManualHedge(Unregistered) \/ Loop(Unregistered)

SpecUnregistered == InitObserving({"reply", "log"}) /\ [][NextUnregistered]_vars

\* Every operation that writes a Monitor: hedges by hand, by button and by the
\* loop, the configuration, a threshold button.
Status == [Base EXCEPT !.buttons = {"confirm_hedge", "threshold_0.05"}]

NextStatus == Commands(Status) \/ Loop(Status)

SpecStatus == InitObserving({"log"}) /\ [][NextStatus]_vars

\* Two subscribers on one asset with different position sizes.
Shared == [Base EXCEPT !.chats = {1, 2}]

NextShared == Registration(Shared) \/ Loop(Shared)

SpecShared == InitObserving({}) /\ [][NextShared]_vars

\* Two subscribers, and market data that may be unavailable.
NextUnavailable == Registration(Shared) \/ Loop(Shared) \/ LoopEvalUnavailable

SpecUnavailable == InitObserving({}) /\ [][NextUnavailable]_vars

\* The thread of the loop running for ever: it is scheduled again and again.
Thread(U) ==
    \/ Loop(U)
    \/ LoopEvalUnavailable
    \/ LoopSleepAtHorizon(U.times)
    \/ LoopBackoffAtHorizon(U.times)

NextForever == Registration(Base) \/ Thread(Base)

SpecForever == InitObserving({}) /\ [][NextForever]_vars /\ WF_vars(Thread(Base))

\* One subscriber who starts again with another position size.
Restart == [Base EXCEPT !.position_args = <<{<<15>>, <<30>>}>>]

NextRestart == Registration(Restart) \/ Loop(Restart)

SpecRestart == InitObserving({}) /\ [][NextRestart]_vars

\* The service with one subscriber until it is told to end; no handler runs
\* once the process has exited.
Dispatcher(U) == pc # "killed" /\ Registration(U)

NextShutdown == Dispatcher(Base) \/ Loop(Base) \/ Shutdown

SpecShutdown == InitObserving({}) /\ [][NextShutdown]_vars

\* Two subscribers that start, configure, ask for their status and stop; the
\* hedge threshold they configure lies above every delta drawn.
Stopping == [Shared EXCEPT !.strategy_args = {"Delta_Neutral"},
                           !.hedge_threshold_args = {<<15>>}]

NextStopping ==
    \/ Registration(Stopping)
    \/ \E chat \in Stopping.chats : hedge_status(chat)
    \/ Loop(Stopping)

SpecStopping == InitObserving({"reply"}) /\ [][NextStopping]_vars

\* Two subscribers that start monitoring and configure the automatic hedge.
Configuration(U) ==
    \/ \E chat \in U.chats, nargs \in {2, 3}, a \in U.asset_args, t \in U.threshold_args :
          \E p \in U.position_args[chat] : monitor_risk(chat, nargs, a, p, t)
    \/ monitor_risk_positions
    \/ \E chat \in U.chats, nargs \in {1, 2}, s \in U.strategy_args,
          t \in U.hedge_threshold_args : auto_hedge(chat, nargs, s, t)

NextConfigure == Configuration(Shared) \/ Loop(Shared)

SpecConfigure == InitObserving({"reply"}) /\ [][NextConfigure]_vars

(***************************************************************************)
(* The alert cooldown                                                      *)
(***************************************************************************)
\* C1: a Monitor that should alert and has no last_alert alerts; when its first
\* alert went out at t0 and its next evaluation, at t0 + D, should alert, the
\* alert goes out exactly when D > 300, however large D is.
C1_CooldownByElapsedTime ==
    [][(/\ pc = "check" /\ pc' # "check" /\ loc[1].should_alert
        /\ Has(active_monitors, loc[1].chat)
        /\ Get(active_monitors, loc[1].chat) = loc[1].mon) =>
          LET m == heap[loc[1].mon][1]
          IN  /\ m.last_alert = None => pc' = "alert"
              /\ (m.alerts = 1 /\ ~m.reeval) =>
                     (pc' = "alert" <=> now - m.sent[1] > ALERT_COOLDOWN)]_vars

\* C2: two alerts delivered in a row for one Monitor are more than 300 seconds
\* apart.
C2_AlertsApart ==
    [][(pc = "alert" /\ pc' = "hedge") =>
          LET m == heap[loc[1].mon][1]
          IN  m.sent # None => now - m.sent[1] > ALERT_COOLDOWN]_vars

\* A Monitor has had a second alert.
C2_SecondAlert ==
    \E id \in MonitorIds : heap[id] # None /\ heap[id][1].alerts = 2

(***************************************************************************)
(* The alert decision                                                      *)
(***************************************************************************)
\* C3, as stated: for a risk threshold t in [0, 1] and a computed delta d, the
\* loop's should_alert equals |d| > t.
C3_AlertIffDeltaOverThreshold ==
    loc # None =>
        (loc[1].risk_threshold \in 0..100 =>
            (loc[1].should_alert <=> Abs(loc[1].delta) > loc[1].risk_threshold))

\* C3, amended: should_alert equals |d| > t or var > 0.05, where var is
\* min(0.2, max(0.01, d * position_size * 0.5)); so it is |d| > t or
\* d * position_size > 0.1, and |d| = t alone does not alert.
C3_AlertIffDeltaOrVarOverThreshold ==
    loc # None =>
        (loc[1].should_alert <=>
            \/ Abs(loc[1].delta) > loc[1].risk_threshold
            \/ loc[1].delta * loc[1].position_size > 100)

\* An evaluation with |d| = t that does not alert.
C3_BoundaryDoesNotAlert ==
    /\ loc # None
    /\ Abs(loc[1].delta) = loc[1].risk_threshold
    /\ ~loc[1].should_alert

(***************************************************************************)
(* The automatic hedge                                                     *)
(***************************************************************************)
\* C4: when the loop hedges a Monitor, the size it records in the Monitor's
\* hedge_status is the Monitor's own position_size times |delta| of the snapshot
\* the tick computed for it.
C4_AutoHedgeOwnPosition ==
    [][(/\ pc = "hedge" /\ pc' # "hedge"
        /\ Has(active_monitors, loc[1].chat)
        /\ Get(active_monitors, loc[1].chat) = loc[1].mon
        /\ ShouldHedge(heap[loc[1].mon][1], Abs(loc[1].delta))) =>
          heap'[loc[1].mon][1].hedge_status =
              [hedged |-> TRUE,
               size |-> heap[loc[1].mon][1].position_size * Abs(loc[1].delta)]]_vars

(***************************************************************************)
(* The hedge recommendation                                                *)
(***************************************************************************)
\* C5: the recommendation shown for an asset is 0 without a snapshot of the
\* asset or with a position of 0, and position_size * |delta| of the latest
\* snapshot otherwise; computing it changes no monitor, position, snapshot or
\* history.
C5_Recommendation ==
    [][\A chat \in Recommend.chats :
          (button_handler(chat, "hedge_now") /\ Has(active_monitors, chat)) =>
              LET asset == heap[Get(active_monitors, chat)][1].asset
                  snapshot == risk_metrics[asset]
                  position == positions[asset]
              IN  /\ reply'.text = "hedge_prompt"
                  /\ reply'.val =
                        IF snapshot = None \/ position = None THEN 0
                        ELSE IF position[1] = 0 THEN 0
                        ELSE position[1] * Abs(snapshot[1].delta)
                  /\ UNCHANGED <<active_monitors, heap, positions, risk_metrics,
                                 history>>]_vars

\* A recommendation that is not 0 was shown, from a snapshot with a negative delta.
C5_RecommendationShown ==
    /\ reply.text = "hedge_prompt"
    /\ reply.val > 0
    /\ \E a \in Assets : risk_metrics[a] # None /\ risk_metrics[a][1].delta < 0

C7_ReplacementIsFresh ==
    [][/\ \A chat \in Base.chats :
             (/\ Has(active_monitors, chat)
              /\ pending = None /\ pending' # None
              /\ pending'[1].op = "monitor_risk" /\ pending'[1].chat = chat) =>
                 LET m == heap'[Get(active_monitors', chat)][1]
                 IN  /\ m.hedge_status = [hedged |-> FALSE, size |-> 0]
                     /\ m.last_alert = None
                     /\ m.hedge_strategy = None
                     /\ m.hedge_threshold = None
       /\ (/\ loc # None /\ pc' # pc
           /\ Has(active_monitors, loc[1].chat)
           /\ Get(active_monitors, loc[1].chat) # loc[1].mon) =>
             LET id == Get(active_monitors, loc[1].chat)
             IN  heap'[id] = heap[id]]_vars

\* The chat has a fresh Monitor while the tick is about to send the alert of
\* the previous one, which is configured to hedge.
C7_ReplacedUnderTick ==
    /\ pc = "alert"
    /\ pending = None
    /\ Has(active_monitors, loc[1].chat)
    /\ Get(active_monitors, loc[1].chat) # loc[1].mon
    /\ heap[loc[1].mon][1].hedge_strategy # None
    /\ heap[Get(active_monitors, loc[1].chat)][1].last_alert = None

(***************************************************************************)
(* hedge_status                                                            *)
(***************************************************************************)
\* C8: no step takes a Monitor that is hedged back to not hedged.
C8_HedgedStaysHedged ==
    [][\A id \in MonitorIds :
          (heap[id] # None /\ heap'[id] # None /\ heap[id][1].hedge_status.hedged) =>
              heap'[id][1].hedge_status.hedged]_vars

\* A Monitor hedged by hand and then, with another size, by the loop.
C8_HedgedAgain ==
    /\ Len(history) = 2
    /\ history[1].size = 500
    /\ history[2].size = 180
    /\ \E id \in MonitorIds :
          heap[id] # None /\ heap[id][1].hedge_status = [hedged |-> TRUE, size |-> 180]

(***************************************************************************)
(* The thresholds                                                          *)
(***************************************************************************)
\* C9: every Monitor in the registry has its risk_threshold in [0, 1] and its
\* hedge_threshold, when it has one, in [0, 1].
C9_ThresholdsInRange ==
    \A i \in 1..Len(active_monitors) :
        LET m == heap[active_monitors[i].mon][1]
        IN  /\ m.risk_threshold \in 0..100
            /\ m.hedge_threshold # None => m.hedge_threshold[1] \in 0..100

(***************************************************************************)
(* /auto_hedge                                                             *)
(***************************************************************************)
\* C10: /auto_hedge strategy threshold fails for a strategy that is none of
\* delta_neutral, protective_puts, covered_calls and dynamic, and fails for a
\* chat without a Monitor, changing no monitor, position or snapshot; otherwise
\* it sets hedge_strategy and hedge_threshold of the chat's Monitor and changes
\* nothing else.
C10_ConfigureHedge ==
    [][\A chat \in Shared.chats, s \in Shared.strategy_args,
          t \in Shared.hedge_threshold_args :
          auto_hedge(chat, 2, s, t) =>
              IF Lower(s) \notin {"delta_neutral", "protective_puts", "covered_calls",
                                  "dynamic"}
              THEN /\ reply'.text = "invalid_strategy"
                   /\ UNCHANGED <<active_monitors, heap, positions, risk_metrics, history>>
              ELSE IF ~Has(active_monitors, chat)
              THEN /\ reply'.text = "not_monitoring"
                   /\ UNCHANGED <<active_monitors, heap, positions, risk_metrics, history>>
              ELSE LET id == Get(active_monitors, chat)
                   IN  /\ reply'.text = "configured"
                       /\ heap' = [heap EXCEPT ![id] =
                              <<[heap[id][1] EXCEPT !.hedge_strategy = <<Lower(s)>>,
                                                    !.hedge_threshold = t]>>]
                       /\ UNCHANGED <<active_monitors, positions, risk_metrics,
                                      history>>]_vars

\* Of two chats with a Monitor, one was configured and the other was not.
C10_OneOfTwoConfigured ==
    /\ reply.text = "configured"
    /\ Has(active_monitors, 1) /\ Has(active_monitors, 2)
    /\ heap[Get(active_monitors, 1)][1].hedge_strategy = <<"delta_neutral">>
    /\ heap[Get(active_monitors, 1)][1].hedge_threshold = <<5>>
    /\ heap[Get(active_monitors, 2)][1].hedge_strategy = None

C12_EvaluationFailureIsolated ==
    [][(pc = "eval" /\ pc' \notin {"eval", "check"} /\ Len(queue) >= 2) =>
          (pc' = "eval" /\ queue' = Tail(queue))]_vars

\* C13: after an exception in a tick the loop backs off and begins another
\* tick, and ticks begin again and again for ever.
C13_TicksForever ==
    /\ (pc = "backoff") ~> (pc = "snapshot")
    /\ []<>(pc = "snapshot")

\* A tick over a Monitor has ended in the except branch.
C13_BackingOff ==
    /\ pc = "backoff"
    /\ active_monitors # <<>>

\* C14: a tick that is to alert a Monitor sets the Monitor's last_alert and
\* goes on to its hedge step, with the rest of the tick's Monitors still to
\* come, whether the alert was delivered or not.
C14_DeliveryFailureNotRaised ==
    [][(pc = "alert" /\ pc' # "alert") =>
          /\ pc' = "hedge"
          /\ queue' = queue
          /\ heap'[loc[1].mon][1].last_alert = <<now>>]_vars

(***************************************************************************)
(* Starts of different subscribers                                         *)
(***************************************************************************)
\* C15: a /monitor_risk of a chat registers a Monitor with the arguments
\* given and leaves the Monitor of every other chat registered and as it was;
\* no step of the loop takes a Monitor out of the registry or changes what it
\* was started with.
C15_StartsBothTakeEffect ==
    [][/\ \A chat \in Shared.chats, a \in Shared.asset_args, t \in Shared.threshold_args :
             \A p \in Shared.position_args[chat] :
                monitor_risk(chat, 3, a, p, t) =>
                    /\ Has(active_monitors', chat)
                    /\ LET m == heap'[Get(active_monitors', chat)][1]
                       IN  /\ m.asset = Upper(a)
                           /\ m.position_size = p[1]
                           /\ m.risk_threshold = t[1]
                    /\ \A other \in Shared.chats \ {chat} :
                          /\ Has(active_monitors', other) <=> Has(active_monitors, other)
                          /\ Has(active_monitors, other) =>
                                /\ Get(active_monitors', other) = Get(active_monitors, other)
                                /\ heap'[Get(active_monitors, other)] =
                                      heap[Get(active_monitors, other)]
       /\ pc' # pc =>
             /\ active_monitors' = active_monitors
             /\ \A i \in 1..Len(active_monitors) :
                   LET old == heap[active_monitors[i].mon][1]
                       new == heap'[active_monitors[i].mon][1]
                   IN  /\ new.asset = old.asset
                       /\ new.position_size = old.position_size
                       /\ new.risk_threshold = old.risk_threshold]_vars

\* Both chats are registered with what each gave, the second start having come
\* while a tick held the first chat's Monitor.
C15_BothRegistered ==
    /\ pending = None
    /\ pc = "alert"
    /\ queue = <<>>
    /\ loc[1].chat = 1
    /\ Has(active_monitors, 1) /\ Has(active_monitors, 2)
    /\ heap[Get(active_monitors, 1)][1].position_size = 15
    /\ heap[Get(active_monitors, 2)][1].position_size = 30

(***************************************************************************)
(* A start under a tick of the same subscriber                             *)
(***************************************************************************)
\* C16: where a tick sizes the alert's recommendation or the automatic hedge
\* of a Monitor, the position it sizes with is the position_size it read from
\* the Monitor: both come from one version of the subscriber's configuration.
C16_OneVersionPerEvaluation ==
    (\/ pc = "alert"
     \/ pc = "hedge" /\ ShouldHedge(heap[loc[1].mon][1], Abs(loc[1].delta)))
        => (IF positions[loc[1].asset] = None THEN 0 ELSE positions[loc[1].asset][1])
               = loc[1].position_size

\* C17: a stop of a subscriber with a Monitor removes that subscriber's Monitor
\* alone and reports its asset, every other subscriber keeping the Monitor it
\* had; a stop of a subscriber with none replies that nothing is monitored and
\* changes nothing; a subscriber without a Monitor gets the not-monitoring reply
\* to a status request and to a well-formed configuration, which changes nothing,
\* and gets a Monitor again only by a start.
C17_StopRemovesOwnMonitor ==
    [][\A chat \in Stopping.chats :
          /\ stop_monitoring(chat) =>
                IF Has(active_monitors, chat)
                THEN /\ reply' = [text |-> "stopped", val |-> 0,
                                  asset |-> heap[Get(active_monitors, chat)][1].asset]
                     /\ ~Has(active_monitors', chat)
                     /\ \A other \in Stopping.chats \ {chat} :
                           /\ Has(active_monitors', other) <=> Has(active_monitors, other)
                           /\ Has(active_monitors, other) =>
                                 /\ Get(active_monitors', other) = Get(active_monitors, other)
                                 /\ heap'[Get(active_monitors, other)]
                                        = heap[Get(active_monitors, other)]
                     /\ UNCHANGED <<positions, risk_metrics, history>>
                ELSE /\ reply'.text = "no_monitoring"
                     /\ UNCHANGED <<active_monitors, heap, positions, risk_metrics, history>>
          /\ ~Has(active_monitors, chat) =>
                /\ hedge_status(chat) => reply'.text = "no_active_monitoring"
                /\ \A s \in Stopping.strategy_args, t \in Stopping.hedge_threshold_args :
                      auto_hedge(chat, 2, s, t) =>
                          /\ reply'.text = "not_monitoring"
                          /\ UNCHANGED <<active_monitors, heap>>
                /\ Has(active_monitors', chat) =>
                      /\ pending' # None
                      /\ pending'[1].op = "monitor_risk"
                      /\ pending'[1].chat = chat]_vars

\* Subscriber 1 has stopped and has been told its asset, and subscriber 2 is
\* still monitored.
C17_StoppedBesideAnother ==
    /\ reply = [text |-> "stopped", val |-> 0, asset |-> "BTC"]
    /\ pending = None
    /\ ~Has(active_monitors, 1)
    /\ Has(active_monitors, 2)

\* C18: the monitoring thread ends only between ticks: when the service ends,
\* the tick under way has been completed, so no Monitor is left between its
\* evaluation, its alert and its automatic hedge.
C18_EndsBetweenTicks ==
    [][pc' = "killed" => pc \in {"snapshot", "sleep", "backoff"}]_vars

\* C19: the loop executes an automatic hedge for a Monitor only in a tick that
\* has delivered an alert for it, only when the Monitor has a hedge strategy,
\* and only when |delta| is strictly above its hedge threshold (1.0 when there
\* is none); no step of the loop changes the hedge_status of a Monitor without
\* a strategy; and two automatic hedges of one Monitor are more than 300
\* seconds apart.
C19_AutoHedgeOnlyAfterAlert ==
    [][/\ (pc = "hedge" /\ pc' # "hedge" /\ history' # history) =>
             LET m == heap[loc[1].mon][1]
             IN  /\ m.sent = <<now>>
                 /\ m.last_alert = <<now>>
                 /\ m.hedge_strategy # None
                 /\ Abs(loc[1].delta) > (IF m.hedge_threshold = None
                                         THEN DEFAULT_HEDGE_THRESHOLD
                                         ELSE m.hedge_threshold[1])
                 /\ m.auto_hedged # <<>> =>
                        now - m.auto_hedged[Len(m.auto_hedged)] > ALERT_COOLDOWN
       /\ pc' # pc =>
             \A id \in MonitorIds :
                 (heap[id] # None /\ heap'[id] # None /\ heap[id][1].hedge_strategy = None) =>
                     heap'[id][1].hedge_status = heap[id][1].hedge_status]_vars

\* The loop has hedged one Monitor twice, and the tick in hand has alerted a
\* Monitor whose delta is at its hedge threshold, which it will not hedge.
C19_HedgedTwiceThenNotAtThreshold ==
    /\ pc = "hedge"
    /\ LET m == heap[loc[1].mon][1]
       IN  /\ Len(m.auto_hedged) = 2
           /\ m.hedge_threshold = <<Abs(loc[1].delta)>>

\* C20: the loop delivers an alert to a subscriber, and executes an automatic
\* hedge for a subscriber's Monitor, only while the subscriber is registered:
\* never between a completed stop and the subscriber's next start.
C20_NothingAfterStop ==
    [][/\ (pc = "alert" /\ pc' = "hedge") => Has(active_monitors, loc[1].chat)
       /\ (pc = "hedge" /\ pc' # "hedge"
             /\ ShouldHedge(heap[loc[1].mon][1], Abs(loc[1].delta))) =>
             Has(active_monitors, loc[1].chat)]_vars

\* C21: /hedge_now asset size from a chat without a Monitor is answered with
\* the error reply and changes nothing: no record is added to the history, then
\* or later, and the registry, the Monitors, the positions and the snapshots
\* stay as they were; a record of a manual hedge is only ever under way for a
\* chat that has a Monitor.
C21_ManualHedgeNeedsMonitor ==
    [][/\ \A chat \in Unregistered.chats, a \in Unregistered.hedge_asset_args,
             z \in Unregistered.hedge_size_args :
             (~Has(active_monitors, chat) /\ hedge_now(chat, 2, a, z)) =>
                 /\ reply'.text = "error"
                 /\ pending' = None
                 /\ UNCHANGED <<history, active_monitors, heap, positions, risk_metrics>>
       /\ (pending # None /\ pending[1].op = "hedge_now") =>
             Has(active_monitors, pending[1].chat)]_vars

\* The chat has had a Monitor, has hedged by hand and has stopped; its next
\* manual hedge was answered with the error reply and the history is as it was.
C21_RefusedAfterStop ==
    /\ reply.text = "error"
    /\ pending = None
    /\ ~Has(active_monitors, 1)
    /\ positions["BTC"] # None
    /\ Len(history) = 1
    /\ history[1].asset = "ETH"

=============================================================================
